---- MODULE Spec2Model ----
(***************************************************************************)
(* Model of cortix: frequency scales and band generation (scales.rs), the  *)
(* gammatone filter and filterbank (gammatone.rs) and the Analyser facade  *)
(* (analyser.rs).                                                          *)
(*                                                                         *)
(* Every f32 of the program is a fixed-point number here: the integer v    *)
(* stands for the real v / One.  The arithmetic operators below round to   *)
(* the nearest representable value, as the f32 operations do, so rounding  *)
(* error is part of the model; only the resolution differs (One steps per  *)
(* unit instead of a 24-bit mantissa).  The inputs are chosen so that no   *)
(* value leaves the finite range: infinities and NaN are not modelled.     *)
(***************************************************************************)
EXTENDS Integers, Sequences, FiniteSets

VARIABLES
    config,               \* GammatoneFilterbank.config
    bands,                \* GammatoneFilterbank.bands
    filters,              \* GammatoneFilterbank.filters
    magnitudes,           \* GammatoneFilterbank.magnitudes
    smoothed_magnitudes,  \* GammatoneFilterbank.smoothed_magnitudes
    smooth_coeff,         \* GammatoneFilterbank.smooth_coeff
    mono_buffer,          \* Analyser.mono_buffer
    last,                 \* the last call made on the instance and its arguments
    ret,                  \* what the last call returned
    nops                  \* number of calls made so far

vars == <<config, bands, filters, magnitudes, smoothed_magnitudes,
          smooth_coeff, mono_buffer, last, ret, nops>>

-----------------------------------------------------------------------------
(* f32 arithmetic in fixed point.  The operations are functions of Int, so  *)
(* that an operand is evaluated once, as the value the program computes.    *)

\* The fixed-point value of 1.0.
One == 4096

Abs(a) == IF a < 0 THEN -a ELSE a

Sgn(a, b) == IF (a < 0) = (b < 0) THEN 1 ELSE -1

\* The literal n/d, rounded to nearest (26.81 is Fx(2681, 100)).
Fx(n, d) == Sgn(n, d) * ((2 * Abs(n) * One + Abs(d)) \div (2 * Abs(d)))

\* The integer quotient a / n, rounded to nearest.
RDiv[a \in Int, n \in Int] ==
    Sgn(a, n) * ((2 * Abs(a) + Abs(n)) \div (2 * Abs(n)))

\* a * b, rounded to nearest.  The operands are split so that no partial
\* product exceeds the result.
FMul[a \in Int, b \in Int] ==
    LET x == Abs(a)
        y == Abs(b)
        xh == x \div One
        xl == x % One
        yh == y \div One
        yl == y % One
    IN  IF x < 32768 /\ y < 32768
            THEN Sgn(a, b) * ((x * y + One \div 2) \div One)
            ELSE Sgn(a, b) * (xh * yh * One + xh * yl + xl * yh
                              + (xl * yl + One \div 2) \div One)

\* Long division: k more binary digits of r / y appended to the quotient q.
DivDigits[r \in Int, y \in Int, k \in Int, q \in Int] ==
    IF k = 0
        THEN (IF 2 * r >= y THEN q + 1 ELSE q)
        ELSE IF 2 * r >= y THEN DivDigits[2 * r - y, y, k - 1, 2 * q + 1]
                           ELSE DivDigits[2 * r, y, k - 1, 2 * q]

Log2Int[n \in Int] == IF n <= 1 THEN 0 ELSE 1 + Log2Int[n \div 2]

\* a / b, rounded to nearest (b # 0).
FDiv[a \in Int, b \in Int] ==
    Sgn(a, b) * DivDigits[Abs(a) % Abs(b), Abs(b), Log2Int[One], Abs(a) \div Abs(b)]

\* sqrt(x) for x >= 0, digit by digit: the largest y with y * y <= x (sq is
\* y * y rounded up, so the comparison is exact).
SqrtDigits[x \in Int, y \in Int, bit \in Int] ==
    IF bit = 0 THEN y
    ELSE LET c == y + bit
             sq == (c \div One) * (c \div One) * One + 2 * (c \div One) * (c % One)
                   + ((c % One) * (c % One) + One - 1) \div One
         IN  IF c <= 2965820 /\ sq <= x
                THEN SqrtDigits[x, c, bit \div 2]
                ELSE SqrtDigits[x, y, bit \div 2]

\* The integer square root of n > 0 by Newton's iteration from y >= sqrt(n).
IntSqrt[n \in Int, y \in Int] ==
    IF (y + n \div y) \div 2 >= y THEN y ELSE IntSqrt[n, (y + n \div y) \div 2]

\* f32::sqrt
FSqrt[x \in Int] ==
    IF x <= 0 THEN 0
    ELSE IF x < 262144 THEN IntSqrt[x * One, x * One]
    ELSE SqrtDigits[x, 0, 2097152]

\* ln 2, ln 10 and pi as f32 constants.
Ln2 == Fx(6931, 10000)
Ln10 == Fx(23026, 10000)
PI == Fx(31416, 10000)

\* The Taylor series of exp at f, summed until the terms vanish.
ExpSeries[f \in Int, term \in Int, n \in Int, acc \in Int] ==
    IF term = 0 \/ n > 24 THEN acc
    ELSE ExpSeries[f, RDiv[FMul[term, f], n], n + 1, acc + term]

Pow2Int[k \in Int] == IF k <= 0 THEN 1 ELSE 2 * Pow2Int[k - 1]

\* f32::exp: 2^k * exp(f) with x = k ln 2 + f and 0 <= f < ln 2; a result
\* below the resolution underflows to 0.
FExp[x \in Int] ==
    LET k == x \div Ln2
        f == x - k * Ln2
    IN  IF k >= 0 THEN ExpSeries[f, One, 1, 0] * Pow2Int[k]
        ELSE IF k < -30 THEN 0
        ELSE RDiv[ExpSeries[f, One, 1, 0], Pow2Int[-k]]

\* ln(m) for m in [1, 2): 2 (z + z^3/3 + z^5/5 + ...) with z = (m-1)/(m+1).
LnSeries[z2 \in Int, pw \in Int, n \in Int, acc \in Int] ==
    IF pw = 0 \/ n > 40 THEN acc
    ELSE LnSeries[z2, FMul[pw, z2], n + 2, acc + RDiv[pw, n]]

LnMantissa[z \in Int] == 2 * LnSeries[FMul[z, z], z, 1, 0]

\* ln(x) for x > 0: k ln 2 + ln(m) with x = 2^k m.
LnNorm[x \in Int, k \in Int] ==
    IF x >= 2 * One THEN LnNorm[x \div 2, k + 1]
    ELSE IF x < One THEN LnNorm[2 * x, k - 1]
    ELSE k * Ln2 + LnMantissa[FDiv[x - One, x + One]]

\* f32::ln (x > 0)
FLn[x \in Int] == LnNorm[x, 0]

\* f32::log10 and f32::log2
FLog10[x \in Int] == FDiv[FLn[x], Ln10]
FLog2[x \in Int] == FDiv[FLn[x], Ln2]

\* f32::powf with base 10 and base 2
FPow10[y \in Int] == FExp[FMul[y, Ln10]]
FPow2[y \in Int] == FExp[FMul[y, Ln2]]

\* The Taylor series of sin (from term x, n = 2) or cos (from term 1, n = 1):
\* each term is the one before times -x^2 / (n (n + 1)).
TrigSeries[x2 \in Int, term \in Int, n \in Int, acc \in Int] ==
    IF term = 0 \/ n > 40 THEN acc
    ELSE TrigSeries[x2, -RDiv[FMul[term, x2], n * (n + 1)], n + 2, acc + term]

\* x reduced to [-pi, pi].
Reduce[x \in Int] ==
    IF (x % (2 * PI)) > PI THEN (x % (2 * PI)) - 2 * PI ELSE x % (2 * PI)

\* f32::sin and f32::cos
FSin[x \in Int] == TrigSeries[FMul[Reduce[x], Reduce[x]], Reduce[x], 2, 0]
FCos[x \in Int] == TrigSeries[FMul[Reduce[x], Reduce[x]], One, 1, 0]

-----------------------------------------------------------------------------
(* scales.rs                                                               *)

hz_to_bark[hz \in Int] ==
    FDiv[FMul[Fx(2681, 100), hz], Fx(1960, 1) + hz] - Fx(53, 100)

bark_to_hz[bark \in Int] ==
    FDiv[FMul[Fx(1960, 1), bark + Fx(53, 100)], Fx(2628, 100) - bark]

erb_bandwidth[hz \in Int] ==
    FMul[Fx(247, 10), FDiv[FMul[Fx(437, 100), hz], Fx(1000, 1)] + One]

hz_to_erb[hz \in Int] ==
    FMul[Fx(214, 10), FLog10[FDiv[FMul[Fx(437, 100), hz], Fx(1000, 1)] + One]]

erb_to_hz[erb \in Int] ==
    FDiv[FMul[FPow10[FDiv[erb, Fx(214, 10)]] - One, Fx(1000, 1)], Fx(437, 100)]

hz_to_mel[hz \in Int] ==
    FMul[Fx(2595, 1), FLog10[One + FDiv[hz, Fx(700, 1)]]]

mel_to_hz[mel \in Int] ==
    FMul[Fx(700, 1), FPow10[FDiv[mel, Fx(2595, 1)]] - One]

\* enum Scale
Scales == {"Linear", "Log", "Bark", "ERB", "Mel"}

\* struct BandInfo
BandInfo(low, high, center, bandwidth) ==
    [low_hz |-> low, high_hz |-> high, center_hz |-> center,
     bandwidth_hz |-> bandwidth]

\* A Linear arm whose bands are half as wide as their spacing (variant that
\* leaves gaps between the bands; BandsTile must tell it from LinearBands).
LinearBandsGapped(num_bands, min_hz, max_hz) ==
    LET step == FDiv[max_hz - min_hz, num_bands * One]
    IN  [k \in 1..num_bands |->
            LET i == k - 1
                low_hz == min_hz + FMul[i * One, step]
                high_hz == low_hz + FDiv[step, 2 * One]
            IN  BandInfo(low_hz, high_hz, FDiv[low_hz + high_hz, 2 * One], step)]

\* The Scale::Linear arm; band i of the loop (i from 0) is entry i + 1.
LinearBands(num_bands, min_hz, max_hz) ==
    LET step == FDiv[max_hz - min_hz, num_bands * One]
    IN  [k \in 1..num_bands |->
            LET i == k - 1
                low_hz == min_hz + FMul[i * One, step]
                high_hz == low_hz + step
            IN  BandInfo(low_hz, high_hz, FDiv[low_hz + high_hz, 2 * One], step)]

\* The Scale::Log arm.
LogBands(num_bands, min_hz, max_hz) ==
    LET log_min == FLog2[min_hz]
        log_max == FLog2[max_hz]
        step == FDiv[log_max - log_min, num_bands * One]
    IN  [k \in 1..num_bands |->
            LET i == k - 1
                low_hz == FPow2[log_min + FMul[i * One, step]]
                high_hz == FPow2[log_min + FMul[(i + 1) * One, step]]
            IN  BandInfo(low_hz, high_hz, FSqrt[FMul[low_hz, high_hz]],
                         high_hz - low_hz)]

\* The Scale::Bark arm.
BarkBands(num_bands, min_hz, max_hz) ==
    LET bark_min == hz_to_bark[min_hz]
        bark_max == hz_to_bark[max_hz]
        step == FDiv[bark_max - bark_min, num_bands * One]
    IN  [k \in 1..num_bands |->
            LET i == k - 1
                bark_low == bark_min + FMul[i * One, step]
                bark_high == bark_min + FMul[(i + 1) * One, step]
                low_hz == bark_to_hz[bark_low]
                high_hz == bark_to_hz[bark_high]
            IN  BandInfo(low_hz, high_hz,
                         bark_to_hz[FDiv[bark_low + bark_high, 2 * One]],
                         high_hz - low_hz)]

\* The Scale::ERB arm.
ErbBands(num_bands, min_hz, max_hz) ==
    LET erb_min == hz_to_erb[min_hz]
        erb_max == hz_to_erb[max_hz]
        step == FDiv[erb_max - erb_min, num_bands * One]
    IN  [k \in 1..num_bands |->
            LET i == k - 1
                erb_low == erb_min + FMul[i * One, step]
                erb_high == erb_min + FMul[(i + 1) * One, step]
                low_hz == erb_to_hz[erb_low]
                high_hz == erb_to_hz[erb_high]
            IN  BandInfo(low_hz, high_hz,
                         erb_to_hz[FDiv[erb_low + erb_high, 2 * One]],
                         high_hz - low_hz)]

\* A Mel arm that walks the range downwards (variant with descending
\* centers; CentersAscendWhenResolved must tell it from MelBands).
MelBandsDescending(num_bands, min_hz, max_hz) ==
    LET mel_min == hz_to_mel[min_hz]
        mel_max == hz_to_mel[max_hz]
        step == FDiv[mel_max - mel_min, num_bands * One]
    IN  [k \in 1..num_bands |->
            LET i == num_bands - k
                mel_low == mel_min + FMul[i * One, step]
                mel_high == mel_min + FMul[(i + 1) * One, step]
                low_hz == mel_to_hz[mel_low]
                high_hz == mel_to_hz[mel_high]
            IN  BandInfo(low_hz, high_hz,
                         mel_to_hz[FDiv[mel_low + mel_high, 2 * One]],
                         high_hz - low_hz)]

\* The Scale::Mel arm.
MelBands(num_bands, min_hz, max_hz) ==
    LET mel_min == hz_to_mel[min_hz]
        mel_max == hz_to_mel[max_hz]
        step == FDiv[mel_max - mel_min, num_bands * One]
    IN  [k \in 1..num_bands |->
            LET i == k - 1
                mel_low == mel_min + FMul[i * One, step]
                mel_high == mel_min + FMul[(i + 1) * One, step]
                low_hz == mel_to_hz[mel_low]
                high_hz == mel_to_hz[mel_high]
            IN  BandInfo(low_hz, high_hz,
                         mel_to_hz[FDiv[mel_low + mel_high, 2 * One]],
                         high_hz - low_hz)]

generate_bands(scale, num_bands, min_hz, max_hz) ==
    CASE scale = "Linear" -> LinearBands(num_bands, min_hz, max_hz)
      [] scale = "Log" -> LogBands(num_bands, min_hz, max_hz)
      [] scale = "Bark" -> BarkBands(num_bands, min_hz, max_hz)
      [] scale = "ERB" -> ErbBands(num_bands, min_hz, max_hz)
      [] scale = "Mel" -> MelBands(num_bands, min_hz, max_hz)

-----------------------------------------------------------------------------
(* gammatone.rs: GammatoneFilter                                           *)

\* [0.0; 4]
Zero4 == <<0, 0, 0, 0>>

\* f32::powi
FPowi[x \in Int, n \in Int] == IF n = 0 THEN One ELSE FMul[FPowi[x, n - 1], x]

\* GammatoneFilter::reset
FilterReset(f) == [f EXCEPT !.state_real = Zero4, !.state_imag = Zero4]

\* GammatoneFilter::configure, on any filter: every field is assigned.
FilterConfigure(center_hz, bandwidth_hz, sample_rate) ==
    LET omega == FDiv[FMul[FMul[2 * One, PI], center_hz], sample_rate]
        bw == FDiv[FMul[FMul[2 * One, PI], bandwidth_hz], sample_rate]
        r == FExp[-bw]
    IN  FilterReset([center_hz |-> center_hz,
                     sample_rate |-> sample_rate,
                     r |-> r,
                     cos_omega |-> FCos[omega],
                     sin_omega |-> FSin[omega],
                     gain |-> FMul[FPowi[One - r, 4], 2 * One],
                     state_real |-> Zero4,
                     state_imag |-> Zero4])

\* GammatoneFilter::new
FilterNew(center_hz, bandwidth_hz, sample_rate) ==
    FilterConfigure(center_hz, bandwidth_hz, sample_rate)

\* One pass of the loop `for i in 0..4` of process: from the pair (real, imag)
\* fed to a stage, the pole (r, cos_omega, sin_omega) and the stage's state,
\* the pair <<new_real, new_imag>>.
Stage[real \in Int, imag \in Int, r \in Int, cos_omega \in Int, sin_omega \in Int, state_real \in Int, state_imag \in Int] ==
    <<real + FMul[r, FMul[cos_omega, state_real] - FMul[sin_omega, state_imag]],
      imag + FMul[r, FMul[sin_omega, state_real] + FMul[cos_omega, state_imag]]>>

\* A loop that feeds each stage the state the stage before it held before
\* the sample, not the pair it has just computed (variant; CascadeFeedsNewState
\* must tell it from Cascade).
RECURSIVE CascadeOfOldStates(_, _, _)
CascadeOfOldStates(f, input, n) ==
    IF n = 0 THEN << >>
    ELSE CHOOSE stages \in
            {Append(done,
                    Stage[IF n = 1 THEN FMul[input, f.gain] ELSE f.state_real[n - 1],
                          IF n = 1 THEN 0 ELSE f.state_imag[n - 1],
                          f.r, f.cos_omega, f.sin_omega,
                          f.state_real[n], f.state_imag[n]]) :
                done \in {CascadeOfOldStates(f, input, n - 1)}} : TRUE

\* The loop up to stage n: the pairs the stages 0..n-1 computed, which are
\* their new states.  Stage 0 is fed the input times the gain, stage i the
\* pair stage i - 1 has just computed.
\* (the singleton set binds the pairs computed so far to their value)
RECURSIVE Cascade(_, _, _)
Cascade(f, input, n) ==
    IF n = 0 THEN << >>
    ELSE CHOOSE stages \in
            {Append(done,
                    Stage[IF n = 1 THEN FMul[input, f.gain] ELSE done[n - 1][1],
                          IF n = 1 THEN 0 ELSE done[n - 1][2],
                          f.r, f.cos_omega, f.sin_omega,
                          f.state_real[n], f.state_imag[n]]) :
                done \in {Cascade(f, input, n - 1)}} : TRUE

\* (real * real + imag * imag).sqrt()
Magnitude[real \in Int, imag \in Int] ==
    FSqrt[FMul[real, real] + FMul[imag, imag]]

\* A process that adds an offset of 1.0 to its input (variant;
\* SilenceIsFixedPoint must tell it from FilterProcess).
FilterProcessBiased(f, input) ==
    CHOOSE result \in
        {[filter |-> [f EXCEPT !.state_real = [i \in 1..4 |-> stages[i][1]],
                               !.state_imag = [i \in 1..4 |-> stages[i][2]]],
          out |-> Magnitude[stages[4][1], stages[4][2]]] :
            stages \in {Cascade(f, input + One, 4)}} : TRUE

\* GammatoneFilter::process: the filter after the sample and the value returned.
FilterProcess(f, input) ==
    CHOOSE result \in
        {[filter |-> [f EXCEPT !.state_real = [i \in 1..4 |-> stages[i][1]],
                               !.state_imag = [i \in 1..4 |-> stages[i][2]]],
          out |-> Magnitude[stages[4][1], stages[4][2]]] :
            stages \in {Cascade(f, input, 4)}} : TRUE

-----------------------------------------------------------------------------
(* gammatone.rs: GammatoneFilterbank                                       *)

\* struct FilterbankConfig
FilterbankConfig(num_bands, min_hz, max_hz, sample_rate, spacing, smoothing_ms) ==
    [num_bands |-> num_bands, min_hz |-> min_hz, max_hz |-> max_hz,
     sample_rate |-> sample_rate, spacing |-> spacing,
     smoothing_ms |-> smoothing_ms]

\* vec![0.0; n]
Zeros(n) == [k \in 1..n |-> 0]

\* A coefficient that stays positive when smoothing is disabled (variant;
\* DisabledSmoothingTracksMagnitude must tell it from SmoothCoeff).
SmoothCoeffNeverZero(c) ==
    IF c.smoothing_ms > 0
        THEN LET tau == FDiv[c.smoothing_ms, Fx(1000, 1)]
             IN  FExp[FDiv[-One, FMul[tau, c.sample_rate]]]
        ELSE One \div 2

\* The envelope smoothing coefficient of configure.
SmoothCoeff(c) ==
    IF c.smoothing_ms > 0
        THEN LET tau == FDiv[c.smoothing_ms, Fx(1000, 1)]
             IN  FExp[FDiv[-One, FMul[tau, c.sample_rate]]]
        ELSE 0

\* Filters as wide as their bands' edges (variant;
\* FiltersUseErbBandwidthOfCenter must tell it from MakeFilters).
MakeFiltersBandWidth(bs, sample_rate) ==
    [k \in DOMAIN bs |->
        FilterNew(bs[k].center_hz, bs[k].bandwidth_hz, sample_rate)]

\* The filters configure creates, one per band.
MakeFilters(bs, sample_rate) ==
    [k \in DOMAIN bs |->
        FilterNew(bs[k].center_hz, erb_bandwidth[bs[k].center_hz], sample_rate)]

\* A configure whose envelope buffer is one entry short (variant;
\* LengthsAgree must tell it from FbConfigure).
FbConfigureShortEnvelope(c) ==
    LET bs == generate_bands(c.spacing, c.num_bands, c.min_hz, c.max_hz)
    IN  [config |-> c,
         bands |-> bs,
         filters |-> MakeFilters(bs, c.sample_rate),
         smooth_coeff |-> SmoothCoeff(c),
         magnitudes |-> Zeros(c.num_bands),
         smoothed_magnitudes |-> Zeros(c.num_bands - 1)]

\* GammatoneFilterbank::configure: no field of the instance survives it.
FbConfigure(c) ==
    LET bs == generate_bands(c.spacing, c.num_bands, c.min_hz, c.max_hz)
    IN  [config |-> c,
         bands |-> bs,
         filters |-> MakeFilters(bs, c.sample_rate),
         smooth_coeff |-> SmoothCoeff(c),
         magnitudes |-> Zeros(c.num_bands),
         smoothed_magnitudes |-> Zeros(c.num_bands)]

\* GammatoneFilterbank::with_config
WithConfig(c) == FbConfigure(c)

\* A reset that leaves the envelope buffer alone (variant; ResetEqualsFresh
\* must tell it from FbReset).
FbResetKeepsEnvelope(fb) ==
    [fb EXCEPT !.filters = [k \in DOMAIN fb.filters |-> FilterReset(fb.filters[k])],
               !.magnitudes = [k \in DOMAIN fb.magnitudes |-> 0]]

\* GammatoneFilterbank::reset
FbReset(fb) ==
    [fb EXCEPT !.filters = [k \in DOMAIN fb.filters |-> FilterReset(fb.filters[k])],
               !.magnitudes = [k \in DOMAIN fb.magnitudes |-> 0],
               !.smoothed_magnitudes = [k \in DOMAIN fb.smoothed_magnitudes |-> 0]]

\* Smoothing with the two weights exchanged (variant; SmoothingIsOnePole
\* must tell it from Smooth).
SmoothSwapped(coeff, env, mag) ==
    IF coeff > 0
        THEN FMul[One - coeff, env] + FMul[coeff, mag]
        ELSE mag

\* The exponential smoothing of process: the new envelope entry of a band.
Smooth(coeff, env, mag) ==
    IF coeff > 0
        THEN FMul[coeff, env] + FMul[One - coeff, mag]
        ELSE mag

\* The calls filter.process(input) of the loop of process, filters 0..n-1:
\* each filter after the sample and the magnitude it returned.
RECURSIVE FilterResults(_, _, _)
FilterResults(fs, input, n) ==
    IF n = 0 THEN << >>
    ELSE Append(FilterResults(fs, input, n - 1), FilterProcess(fs[n], input))

\* GammatoneFilterbank::process (one sample); the bands do not interact.
\* (the singleton set binds the filters' results to their value)
FbProcess(fb, input) ==
    CHOOSE after \in
        {[fb EXCEPT
            !.filters = [k \in DOMAIN fb.filters |-> res[k].filter],
            !.magnitudes = [k \in DOMAIN fb.magnitudes |->
                IF k \in DOMAIN res THEN res[k].out ELSE fb.magnitudes[k]],
            !.smoothed_magnitudes = [k \in DOMAIN fb.smoothed_magnitudes |->
                IF k \in DOMAIN res
                    THEN Smooth(fb.smooth_coeff, fb.smoothed_magnitudes[k], res[k].out)
                    ELSE fb.smoothed_magnitudes[k]]] :
            res \in {FilterResults(fb.filters, input, Len(fb.filters))}} : TRUE

\* A process_block that walks the block from its last sample to its first
\* (variant; BlockIsPerSample must tell it from FbProcessBlock).
RECURSIVE FbProcessBlockReversed(_, _)
FbProcessBlockReversed(fb, input) ==
    IF input = << >> THEN fb
    ELSE CHOOSE after \in
            {FbProcess(rest, input[1]) :
                rest \in {FbProcessBlockReversed(fb, Tail(input))}} : TRUE

\* GammatoneFilterbank::process_block
\* (the singleton set binds the filterbank after the first sample)
RECURSIVE FbProcessBlock(_, _)
FbProcessBlock(fb, input) ==
    IF input = << >> THEN fb
    ELSE CHOOSE after \in {FbProcessBlock(next, Tail(input)) :
                                next \in {FbProcess(fb, Head(input))}} : TRUE

\* A dB conversion that never goes below the floor (variant; DbAccessors must
\* tell it from FbMagnitudesDb).
FbMagnitudesDbClamped(fb, output, min_db) ==
    [k \in DOMAIN output |->
        IF k \in DOMAIN fb.smoothed_magnitudes
            THEN (IF fb.smoothed_magnitudes[k] > 0
                     /\ FMul[20 * One, FLog10[fb.smoothed_magnitudes[k]]] > min_db
                    THEN FMul[20 * One, FLog10[fb.smoothed_magnitudes[k]]]
                    ELSE min_db)
            ELSE output[k]]

\* GammatoneFilterbank::magnitudes_db into an output slice `output`.
FbMagnitudesDb(fb, output, min_db) ==
    [k \in DOMAIN output |->
        IF k \in DOMAIN fb.smoothed_magnitudes
            THEN (IF fb.smoothed_magnitudes[k] > 0
                    THEN FMul[20 * One, FLog10[fb.smoothed_magnitudes[k]]]
                    ELSE min_db)
            ELSE output[k]]

\* GammatoneFilterbank::magnitude_db
FbMagnitudeDb(fb, band, min_db) ==
    LET mag == fb.smoothed_magnitudes[band + 1]
    IN  IF mag > 0 THEN FMul[20 * One, FLog10[mag]] ELSE min_db

\* GammatoneFilterbank::process on a slice, as analyser.rs calls it.
FbProcessSlice(fb, input) == FbProcessBlock(fb, input)

\* GammatoneFilterbank::envelope, as analyser.rs calls it.
FbEnvelope(fb) == fb.smoothed_magnitudes

\* GammatoneFilterbank::envelope_db, as analyser.rs calls it.
FbEnvelopeDb(fb, min_db) ==
    [k \in DOMAIN fb.smoothed_magnitudes |->
        IF fb.smoothed_magnitudes[k] > 0
            THEN FMul[20 * One, FLog10[fb.smoothed_magnitudes[k]]]
            ELSE min_db]

-----------------------------------------------------------------------------
(* analyser.rs: Analyser                                                   *)

Min(a, b) == IF a < b THEN a ELSE b

\* A resize that only grows (variant; StereoMixesShorterLength must tell it
\* from Resize).
ResizeGrowOnly(v, n, value) ==
    [k \in 1..(IF n > Len(v) THEN n ELSE Len(v)) |->
        IF k <= Len(v) THEN v[k] ELSE value]

\* Vec::resize(n, value)
Resize(v, n, value) ==
    [k \in 1..n |-> IF k <= Len(v) THEN v[k] ELSE value]

\* A mix that sums the channels without halving (variant;
\* StereoOfEqualChannelsIsMono must tell it from MonoMix).
MonoMixSum(buffer, left, right) ==
    LET num_samples == Min(Len(left), Len(right))
        resized == Resize(buffer, num_samples, 0)
    IN  [k \in 1..Len(resized) |->
            IF k <= num_samples
                THEN left[k] + right[k]
                ELSE resized[k]]

\* The mono mix of process_stereo: mono_buffer after the resize and the loop.
MonoMix(buffer, left, right) ==
    LET num_samples == Min(Len(left), Len(right))
        resized == Resize(buffer, num_samples, 0)
    IN  [k \in 1..Len(resized) |->
            IF k <= num_samples
                THEN FMul[left[k] + right[k], Fx(5, 10)]
                ELSE resized[k]]

-----------------------------------------------------------------------------
(* The instance and the calls made on it                                   *)

MaxBands == 2
MaxLen == 2
MaxOps == 2

\* Input samples.
Samples == {-8 * One, 0, 4 * One}
BlockSamples == {-8 * One, 4 * One}

RECURSIVE SeqsOfLen(_, _)
SeqsOfLen(S, n) ==
    IF n = 0 THEN {<< >>}
    ELSE {<<x>> \o t : x \in S, t \in SeqsOfLen(S, n - 1)}

\* Input blocks.
Blocks == UNION {SeqsOfLen(BlockSamples, n) : n \in 0..MaxLen}

\* The channels of a stereo call: prefixes of two different signals.
LeftSignal == [k \in 1..MaxLen |-> (3 * k - 5) * One]
RightSignal == [k \in 1..MaxLen |-> (7 - 2 * k) * One]
LeftBlocks == {SubSeq(LeftSignal, 1, n) : n \in 0..MaxLen}
RightBlocks == {SubSeq(RightSignal, 1, n) : n \in 0..MaxLen}

\* Floors passed to the dB accessors.
MinDbs == {-100 * One, -20 * One}

\* Configurations of the instance under the processing calls.
Configs ==
    {FilterbankConfig(n, 100 * One, 400 * One, 1000 * One, "ERB", ms * One) :
        n \in {1, MaxBands}, ms \in {-5, 0, 5}}

\* Frequency ranges: a wide one, and one a few representable values wide.
WideRange == <<100 * One, 400 * One>>
NarrowRange == <<200 * One, 200 * One + 3>>

\* Configurations the documentation admits.
ValidConfigs ==
    {FilterbankConfig(n, rg[1], rg[2], 1000 * One, sc, 5 * One) :
        n \in 1..MaxBands, rg \in {WideRange, NarrowRange}, sc \in Scales}

\* Configurations the documentation excludes: no bands, an empty or an
\* inverted range, a negative sample rate.
InvalidConfigs ==
    {FilterbankConfig(0, WideRange[1], WideRange[2], 1000 * One, sc, 5 * One) :
        sc \in Scales}
    \cup {FilterbankConfig(MaxBands, rg[1], rg[2], 1000 * One, sc, 5 * One) :
            rg \in {<<200 * One, 200 * One>>, <<400 * One, 100 * One>>},
            sc \in Scales}
    \cup {FilterbankConfig(1, WideRange[1], WideRange[2], -1000 * One, sc, 5 * One) :
            sc \in Scales}

\* Configurations handed to construction and reconfiguration.
WideConfigs == ValidConfigs \cup InvalidConfigs

\* The filterbank of the instance, as one value.
Fb ==
    [config |-> config, bands |-> bands, filters |-> filters,
     smooth_coeff |-> smooth_coeff, magnitudes |-> magnitudes,
     smoothed_magnitudes |-> smoothed_magnitudes]

SetFb(fb) ==
    \E after \in {fb} :
        /\ config' = after.config
        /\ bands' = after.bands
        /\ filters' = after.filters
        /\ smooth_coeff' = after.smooth_coeff
        /\ magnitudes' = after.magnitudes
        /\ smoothed_magnitudes' = after.smoothed_magnitudes

fbvars == <<config, bands, filters, smooth_coeff, magnitudes, smoothed_magnitudes>>

\* The record of a call: its name, its arguments, and the envelope and the
\* length of the mono buffer it found.
Call(op, a, b) ==
    [op |-> op, a |-> a, b |-> b,
     pre_env |-> smoothed_magnitudes, pre_len |-> Len(mono_buffer)]

\* GammatoneFilterbank::with_config(c); the Analyser over it starts with an
\* empty mono buffer.
Constructed(c) ==
    /\ config = WithConfig(c).config
    /\ bands = WithConfig(c).bands
    /\ filters = WithConfig(c).filters
    /\ smooth_coeff = WithConfig(c).smooth_coeff
    /\ magnitudes = WithConfig(c).magnitudes
    /\ smoothed_magnitudes = WithConfig(c).smoothed_magnitudes
    /\ mono_buffer = << >>
    /\ last = [op |-> "new", a |-> c, b |-> 0, pre_env |-> << >>, pre_len |-> 0]
    /\ ret = << >>
    /\ nops = 0

Init == \E c \in Configs : Constructed(c)

\* A configure that resizes the envelope buffer in place, keeping the entries
\* it held (variant; ReconfigureEqualsFresh must tell it from Configure).
ConfigureKeepsEnvelope(c) ==
    /\ nops < MaxOps
    /\ SetFb([FbConfigure(c) EXCEPT
                !.smoothed_magnitudes = Resize(smoothed_magnitudes, c.num_bands, 0)])
    /\ last' = Call("configure", c, 0)
    /\ ret' = << >>
    /\ nops' = nops + 1
    /\ UNCHANGED mono_buffer

\* fb.configure(c)
Configure(c) ==
    /\ nops < MaxOps
    /\ SetFb(FbConfigure(c))
    /\ last' = Call("configure", c, 0)
    /\ ret' = << >>
    /\ nops' = nops + 1
    /\ UNCHANGED mono_buffer

\* fb.process(x)
Process(x) ==
    /\ nops < MaxOps
    /\ SetFb(FbProcess(Fb, x))
    /\ last' = Call("process", x, 0)
    /\ ret' = << >>
    /\ nops' = nops + 1
    /\ UNCHANGED mono_buffer

\* fb.process_block(xs)
ProcessBlock(xs) ==
    /\ nops < MaxOps
    /\ SetFb(FbProcessBlock(Fb, xs))
    /\ last' = Call("process_block", xs, 0)
    /\ ret' = << >>
    /\ nops' = nops + 1
    /\ UNCHANGED mono_buffer

\* fb.reset()
Reset ==
    /\ nops < MaxOps
    /\ SetFb(FbReset(Fb))
    /\ last' = Call("reset", 0, 0)
    /\ ret' = << >>
    /\ nops' = nops + 1
    /\ UNCHANGED mono_buffer

\* fb.magnitudes_db(&mut output, min_db), output holding one entry per band.
MagnitudesDb(min_db) ==
    /\ last' = Call("magnitudes_db", min_db, 0)
    /\ ret' = FbMagnitudesDb(Fb, Zeros(config.num_bands), min_db)
    /\ UNCHANGED <<fbvars, mono_buffer, nops>>

\* fb.magnitude_db(band, min_db)
MagnitudeDb(band, min_db) ==
    /\ last' = Call("magnitude_db", band, min_db)
    /\ ret' = FbMagnitudeDb(Fb, band, min_db)
    /\ UNCHANGED <<fbvars, mono_buffer, nops>>

\* analyser.reset()
AnalyserReset ==
    /\ nops < MaxOps
    /\ SetFb(FbReset(Fb))
    /\ last' = Call("analyser.reset", 0, 0)
    /\ ret' = << >>
    /\ nops' = nops + 1
    /\ UNCHANGED mono_buffer

\* Analyser::process on the filterbank fb: the filterbank after it and the
\* envelope returned.
AnProcess(fb, input) ==
    LET after == FbProcessSlice(fb, input)
    IN  [fb |-> after, envelope |-> FbEnvelope(after)]

\* analyser.process(xs)
AnalyserProcess(xs) ==
    /\ nops < MaxOps
    /\ \E result \in {AnProcess(Fb, xs)} :
            /\ SetFb(result.fb)
            /\ ret' = result.envelope
    /\ last' = Call("analyser.process", xs, 0)
    /\ nops' = nops + 1
    /\ UNCHANGED mono_buffer

\* analyser.process_stereo(left, right)
ProcessStereo(left, right) ==
    LET mono == MonoMix(mono_buffer, left, right)
    IN  /\ nops < MaxOps
        /\ mono_buffer' = mono
        /\ \E result \in {AnProcess(Fb, mono)} :
                /\ SetFb(result.fb)
                /\ ret' = result.envelope
        /\ last' = Call("analyser.process_stereo", left, right)
        /\ nops' = nops + 1

\* analyser.envelope_db()
EnvelopeDb ==
    /\ last' = Call("analyser.envelope_db", 0, 0)
    /\ ret' = FbEnvelopeDb(Fb, -100 * One)
    /\ UNCHANGED <<fbvars, mono_buffer, nops>>

\* The filterbank under construction, reconfiguration, processing and reset.
Next ==
    \/ \E c \in Configs : Configure(c)
    \/ \E x \in Samples : Process(x)
    \/ \E xs \in Blocks : ProcessBlock(xs)
    \/ Reset

Spec == Init /\ [][Next]_vars

\* The Analyser facade over its filterbank.
NextAnalyser ==
    \/ \E xs \in LeftBlocks : AnalyserProcess(xs)
    \/ \E left \in LeftBlocks : \E right \in RightBlocks \cup {left} :
            ProcessStereo(left, right)
    \/ AnalyserReset

SpecAnalyser == Init /\ [][NextAnalyser]_vars

\* The dB accessors on a filterbank that processes samples.
NextDb ==
    \/ \E x \in Samples : Process(x)
    \/ \E m \in MinDbs : MagnitudesDb(m)
    \/ \E band \in 0..(config.num_bands - 1), m \in MinDbs : MagnitudeDb(band, m)
    \/ EnvelopeDb

SpecDb == Init /\ [][NextDb]_vars

\* Construction and reconfiguration alone, over every configuration.
InitConfig == \E c \in WideConfigs : Constructed(c)

NextConfig == \E c \in WideConfigs : Configure(c)

SpecConfig == InitConfig /\ [][NextConfig]_vars

\* Processing alone, sample by sample and block by block.
NextBlock ==
    \/ \E x \in Samples : Process(x)
    \/ \E xs \in Blocks : ProcessBlock(xs)

SpecBlock == Init /\ [][NextBlock]_vars

\* Blocks of silence.
SilentBlocks == {[k \in 1..n |-> 0] : n \in 0..MaxLen}

\* Sound and silence, resets, and the dB accessor.
NextSilence ==
    \/ \E x \in Samples : Process(x)
    \/ \E xs \in SilentBlocks : ProcessBlock(xs)
    \/ Reset
    \/ \E m \in MinDbs : MagnitudesDb(m)

SpecSilence == Init /\ [][NextSilence]_vars

\* ---------------------------------------------------------------------------
\* The envelope in rounded arithmetic. The fixed-point operators above add
\* exactly; an f32 rounds every product and every sum to its significand
\* (24 bits, ties to even). The operators below keep SigBits significant bits
\* on top of the resolution 1/One, so that the rounding of the smoothing line
\* shows at the magnitudes the inputs of this model produce.
SigBits == 5

\* The spacing of the representable values around v.
Ulp[v \in Int] ==
    IF Abs(v) < 2^SigBits THEN 1 ELSE 2^(Log2Int[Abs(v)] - SigBits + 1)

\* p / q rounded to the nearest integer, ties to the even one (p >= 0, q > 0).
NearestEven[p \in Int, q \in Int] ==
    IF 2 * (p % q) > q \/ (2 * (p % q) = q /\ (p \div q) % 2 = 1)
    THEN (p \div q) + 1 ELSE p \div q

\* v rounded to a representable value.
RoundSig[v \in Int] ==
    IF v < 0 THEN -(Ulp[-v] * NearestEven[-v, Ulp[-v]])
    ELSE Ulp[v] * NearestEven[v, Ulp[v]]

\* a * b and a + b of f32 operands, each rounded once.
F32Mul[a \in Int, b \in Int] ==
    IF a * b < 0 THEN -(Ulp[(-(a * b)) \div One] * NearestEven[-(a * b), Ulp[(-(a * b)) \div One] * One])
    ELSE Ulp[(a * b) \div One] * NearestEven[a * b, Ulp[(a * b) \div One] * One]

F32Add[a \in Int, b \in Int] == RoundSig[a + b]

\* An update that adds the whole magnitude to the decayed envelope (variant;
\* EnvelopeBetweenUpToRounding must tell it from SmoothF32).
SmoothF32Undamped(coeff, env, mag) ==
    IF coeff > 0 THEN F32Add[F32Mul[coeff, env], mag] ELSE mag

\* The smoothing line of GammatoneFilterbank::process, as f32 evaluates it:
\* smooth_coeff * env + (1.0 - smooth_coeff) * mag, four roundings.
SmoothF32(coeff, env, mag) ==
    IF coeff > 0
    THEN F32Add[F32Mul[coeff, env], F32Mul[F32Add[One, -coeff], mag]]
    ELSE mag

\* GammatoneFilterbank::process with the magnitude the square root returns
\* and the envelope held as rounded values.
FbProcessF32(fb, input) ==
    CHOOSE after \in
        {[p EXCEPT !.magnitudes = [k \in DOMAIN p.magnitudes |-> RoundSig[p.magnitudes[k]]],
                   !.smoothed_magnitudes =
                        [k \in DOMAIN p.smoothed_magnitudes |->
                            IF k \in DOMAIN p.magnitudes /\ k \in DOMAIN fb.smoothed_magnitudes
                            THEN SmoothF32(RoundSig[fb.smooth_coeff],
                                           fb.smoothed_magnitudes[k],
                                           RoundSig[p.magnitudes[k]])
                            ELSE p.smoothed_magnitudes[k]]] :
            p \in {FbProcess(fb, input)}} : TRUE

\* GammatoneFilterbank::process_block over FbProcessF32.
RECURSIVE FbProcessBlockF32(_, _)
FbProcessBlockF32(fb, input) ==
    IF input = << >> THEN fb
    ELSE CHOOSE after \in {FbProcessBlockF32(next, Tail(input)) :
                                next \in {FbProcessF32(fb, Head(input))}} : TRUE

\* The configurations of Configs, and a band of 20 to 25 Hz sampled at 340 Hz
\* under a smoothing time of three quarters of a millisecond, a quarter of
\* the sample period: its magnitude changes little from sample to sample.
F32Configs ==
    Configs \cup
    {FilterbankConfig(n, 20 * One, 25 * One, 340 * One, "ERB", (3 * One) \div 4) :
        n \in {1, MaxBands}}

InitF32 == \E c \in F32Configs : Constructed(c)

\* Samples of either sign, two units apart.
FineSamples == {(2 * k + 1) * One : k \in -10..9}

\* fb.process(x)
ProcessF32(x) ==
    /\ nops < MaxOps
    /\ SetFb(FbProcessF32(Fb, x))
    /\ last' = Call("process", x, 0)
    /\ ret' = << >>
    /\ nops' = nops + 1
    /\ UNCHANGED mono_buffer

\* fb.process_block(xs)
ProcessBlockF32(xs) ==
    /\ nops < MaxOps
    /\ SetFb(FbProcessBlockF32(Fb, xs))
    /\ last' = Call("process_block", xs, 0)
    /\ ret' = << >>
    /\ nops' = nops + 1
    /\ UNCHANGED mono_buffer

\* process, process_block and reset on samples of either sign.
NextF32 ==
    \/ \E x \in FineSamples : ProcessF32(x)
    \/ \E xs \in Blocks : ProcessBlockF32(xs)
    \/ Reset

SpecF32 == InitF32 /\ [][NextF32]_vars

\* Frequencies handed to the scale conversions: those of the round-trip
\* tests, and others of the audible range.
Hzs ==
    {h * One : h \in {20, 50, 100, 200, 500, 1000, 2000, 4000, 8000, 10000, 16000}}

\* hz_to_bark(hz)
HzToBark(hz) ==
    /\ last' = Call("hz_to_bark", hz, 0)
    /\ ret' = hz_to_bark[hz]
    /\ UNCHANGED <<fbvars, mono_buffer, nops>>

\* bark_to_hz(bark), bark being the value hz_to_bark has just returned.
BarkToHz ==
    /\ last.op = "hz_to_bark"
    /\ last' = Call("bark_to_hz", ret, last.a)
    /\ ret' = bark_to_hz[ret]
    /\ UNCHANGED <<fbvars, mono_buffer, nops>>

\* hz_to_erb(hz)
HzToErb(hz) ==
    /\ last' = Call("hz_to_erb", hz, 0)
    /\ ret' = hz_to_erb[hz]
    /\ UNCHANGED <<fbvars, mono_buffer, nops>>

\* An erb_to_hz with base e in place of base 10 (variant; RoundTripWithinOnePercent
\* must tell it from ErbToHz).
ErbToHzNatural ==
    /\ last.op = "hz_to_erb"
    /\ last' = Call("erb_to_hz", ret, last.a)
    /\ ret' = FDiv[FMul[FExp[FDiv[ret, Fx(214, 10)]] - One, Fx(1000, 1)], Fx(437, 100)]
    /\ UNCHANGED <<fbvars, mono_buffer, nops>>

\* erb_to_hz(erb), erb being the value hz_to_erb has just returned.
ErbToHz ==
    /\ last.op = "hz_to_erb"
    /\ last' = Call("erb_to_hz", ret, last.a)
    /\ ret' = erb_to_hz[ret]
    /\ UNCHANGED <<fbvars, mono_buffer, nops>>

\* hz_to_mel(hz)
HzToMel(hz) ==
    /\ last' = Call("hz_to_mel", hz, 0)
    /\ ret' = hz_to_mel[hz]
    /\ UNCHANGED <<fbvars, mono_buffer, nops>>

\* mel_to_hz(mel), mel being the value hz_to_mel has just returned.
MelToHz ==
    /\ last.op = "hz_to_mel"
    /\ last' = Call("mel_to_hz", ret, last.a)
    /\ ret' = mel_to_hz[ret]
    /\ UNCHANGED <<fbvars, mono_buffer, nops>>

\* The scale conversions, each inverse applied to what the forward one returned.
NextScales ==
    \/ \E hz \in Hzs : HzToBark(hz)
    \/ BarkToHz
    \/ \E hz \in Hzs : HzToErb(hz)
    \/ ErbToHz
    \/ \E hz \in Hzs : HzToMel(hz)
    \/ MelToHz

SpecScales == Init /\ [][NextScales]_vars

-----------------------------------------------------------------------------
(* Properties                                                              *)

\* C1: after reset() the filterbank (every filter's accumulators, the
\* magnitude and envelope buffers, the bands, the filter coefficients and the
\* smoothing coefficient) equals a freshly constructed filterbank with the
\* same configuration, so that the same sample gives the same result on both.
ResetEqualsFresh ==
    last.op = "reset" =>
        /\ Fb = WithConfig(config)
        /\ \A x \in Samples : FbProcess(Fb, x) = FbProcess(WithConfig(config), x)

\* reset() was called on a filterbank whose envelope was not zero.
ResetAfterProcessing ==
    /\ last.op = "reset"
    /\ \E i \in DOMAIN last.pre_env : last.pre_env[i] > 0

\* C2: construction and reconfiguration reject a configuration with no
\* bands, a sample rate that is not positive, or a range that is empty,
\* inverted or starts at or below 0: an instance only ever holds a
\* configuration free of these.
ConfigurationRejectsInvalid ==
    last.op \in {"new", "configure"} =>
        /\ last.a = config
        /\ config.num_bands >= 1
        /\ config.sample_rate > 0
        /\ 0 < config.min_hz
        /\ config.min_hz < config.max_hz

\* C3: with smoothing_ms <= 0, a process(sample) call leaves in every band an
\* envelope entry equal to the magnitude entry, which is the magnitude the
\* band's filter computed for that sample.
DisabledSmoothingTracksMagnitude ==
    [][(last'.op = "process" /\ config.smoothing_ms <= 0) =>
        \A i \in 1..config.num_bands :
            /\ smoothed_magnitudes'[i] = magnitudes'[i]
            /\ smoothed_magnitudes'[i] = FilterProcess(filters[i], last'.a).out]_vars

\* process(sample) has run with smoothing disabled on an envelope that was
\* not zero, and has changed it.
UnsmoothedProcessOverwrites ==
    /\ last.op = "process"
    /\ config.smoothing_ms <= 0
    /\ \E i \in DOMAIN smoothed_magnitudes :
            last.pre_env[i] > 0 /\ smoothed_magnitudes[i] # last.pre_env[i]

\* C4: with smoothing_ms > 0, a process(sample) call sets the magnitude entry
\* of every band to the magnitude mag its filter computed for the sample, and
\* the envelope entry to alpha * env + (1 - alpha) * mag, env being the entry
\* before the call and alpha = exp(-1 / (smoothing_ms / 1000 * sample_rate))
\* the coefficient held since configuration.
SmoothingIsOnePole ==
    [][(last'.op = "process" /\ config.smoothing_ms > 0) =>
        LET alpha == FExp[FDiv[-One, FMul[FDiv[config.smoothing_ms, 1000 * One],
                                          config.sample_rate]]]
        IN  /\ smooth_coeff = alpha
            /\ smooth_coeff' = alpha
            /\ \A i \in 1..config.num_bands :
                LET mag == FilterProcess(filters[i], last'.a).out
                IN  /\ magnitudes'[i] = mag
                    /\ smoothed_magnitudes'[i] =
                            FMul[alpha, smoothed_magnitudes[i]] + FMul[One - alpha, mag]]_vars

\* process(sample) has run with smoothing enabled on an envelope that was not
\* zero, and the envelope differs from the magnitudes.
SmoothedProcessBlends ==
    /\ last.op = "process"
    /\ config.smoothing_ms > 0
    /\ \E i \in DOMAIN smoothed_magnitudes :
            last.pre_env[i] > 0 /\ smoothed_magnitudes[i] # magnitudes[i]

\* C5: for every scale, num_bands >= 1 and 0 < min_hz < max_hz the bands tile
\* the range: the first low edge is min_hz, the last high edge is max_hz and
\* each high edge is the next band's low edge, each up to rounding (here: to
\* within 1/128 of the value).
BandsTile ==
    LET Near(a, b) == Abs(a - b) * 128 <= Abs(b)
    IN  (config.num_bands >= 1 /\ 0 < config.min_hz /\ config.min_hz < config.max_hz) =>
            /\ Len(bands) = config.num_bands
            /\ Near(bands[1].low_hz, config.min_hz)
            /\ Near(bands[config.num_bands].high_hz, config.max_hz)
            /\ \A i \in 1..(config.num_bands - 1) :
                    Near(bands[i].high_hz, bands[i + 1].low_hz)

\* Several bands were generated over a wide range on a scale that converts
\* the edges back and forth.
SeveralBarkBands ==
    /\ config.spacing = "Bark"
    /\ config.num_bands >= 2
    /\ config.min_hz = WideRange[1] /\ config.max_hz = WideRange[2]
    /\ config.sample_rate > 0
    /\ Len(bands) >= 2

StereoOfEqualChannelsIsMono ==
    [][(last'.op = "analyser.process_stereo" /\ last'.a = last'.b) =>
        /\ ret' = AnProcess(Fb, last'.a).envelope
        /\ Fb' = AnProcess(Fb, last'.a).fb]_vars

\* process_stereo ran on two identical channels that are not empty, and the
\* envelope it returned is not zero.
StereoRanOnEqualChannels ==
    /\ last.op = "analyser.process_stereo"
    /\ last.a = last.b
    /\ Len(last.a) >= 1
    /\ \E i \in DOMAIN ret : ret[i] > 0

\* C8: process_stereo(left, right) processes min(len(left), len(right))
\* samples, the i-th being (left[i] + right[i]) * 0.5, in index order,
\* whatever the two lengths; it can always be called; and the mono buffer
\* ends holding exactly these samples, whatever its length was.
StereoMixesShorterLength ==
    [][last'.op = "analyser.process_stereo" =>
        LET n == IF Len(last'.a) < Len(last'.b) THEN Len(last'.a) ELSE Len(last'.b)
            mix == [i \in 1..n |-> FMul[last'.a[i] + last'.b[i], One \div 2]]
        IN  /\ Len(mono_buffer') = n
            /\ mono_buffer' = mix
            /\ Fb' = FbProcessBlock(Fb, mix)
            /\ ret' = smoothed_magnitudes']_vars

\* process_stereo ran on channels of different lengths, and shrank a mono
\* buffer that an earlier call had left longer.
StereoShrankBuffer ==
    /\ last.op = "analyser.process_stereo"
    /\ Len(last.a) # Len(last.b)
    /\ Len(mono_buffer) >= 1
    /\ last.pre_len > Len(mono_buffer)

\* C9: the dB accessors return one value per band: min_db (-100 through the
\* Analyser) for a band whose envelope entry is <= 0 and 20 * log10(m) for a
\* band whose entry m is > 0; magnitude_db(band, min_db) returns the entry of
\* that band.
DbAccessors ==
    LET Db(m, min_db) == IF m > 0 THEN FMul[20 * One, FLog10[m]] ELSE min_db
    IN  /\ last.op = "magnitudes_db" =>
            /\ Len(ret) = config.num_bands
            /\ \A i \in 1..config.num_bands :
                    ret[i] = Db(smoothed_magnitudes[i], last.a)
        /\ last.op = "magnitude_db" =>
            ret = Db(smoothed_magnitudes[last.a + 1], last.b)
        /\ last.op = "analyser.envelope_db" =>
            /\ Len(ret) = config.num_bands
            /\ \A i \in 1..config.num_bands :
                    ret[i] = Db(smoothed_magnitudes[i], -100 * One)

\* magnitudes_db returned a value below its floor for a band that is not
\* silent.
DbBelowFloor ==
    /\ last.op = "magnitudes_db"
    /\ \E i \in DOMAIN ret : smoothed_magnitudes[i] > 0 /\ ret[i] < last.a

\* C10: on every scale, filter i has the center frequency of band i and the
\* coefficients of the bandwidth erb_bandwidth(bands[i].center_hz): neither
\* the scale nor the width between the band's edges enters.
FiltersUseErbBandwidthOfCenter ==
    /\ Len(filters) = Len(bands)
    /\ \A i \in DOMAIN bands :
        LET bw == FDiv[FMul[FMul[2 * One, PI], erb_bandwidth[bands[i].center_hz]],
                       config.sample_rate]
        IN  /\ filters[i].center_hz = bands[i].center_hz
            /\ filters[i].r = FExp[-bw]
            /\ filters[i].gain = FMul[FPowi[One - FExp[-bw], 4], 2 * One]
            /\ filters[i] = FilterNew(bands[i].center_hz,
                                      erb_bandwidth[bands[i].center_hz],
                                      config.sample_rate)

\* A filterbank was configured on a scale other than ERB, with a band whose
\* edge width is not the ERB bandwidth of its center.
FilterOfNonErbBand ==
    /\ config.spacing # "ERB"
    /\ Len(filters) >= 1
    /\ bands[1].bandwidth_hz # erb_bandwidth[bands[1].center_hz]

\* C11: for Bark, ERB and Mel and each hz of 100, 500, 1000, 4000, 10000 (and
\* the other frequencies tried), converting hz to the scale and back returns
\* a value within 1% of hz.
RoundTripWithinOnePercent ==
    last.op \in {"bark_to_hz", "erb_to_hz", "mel_to_hz"} =>
        Abs(ret - last.b) * 100 <= last.b

\* 10000 Hz went to the ERB scale and back.
ErbRoundTripDone ==
    /\ last.op = "erb_to_hz"
    /\ last.b = 10000 * One
    /\ last.a > 0

\* C12: process_block(xs) leaves the filterbank that process(x) for each x
\* of xs, first to last, leaves; so for every split xs = a ++ b it equals
\* process_block(a) followed by process_block(b), and an empty block changes
\* nothing.
BlockIsPerSample ==
    [][last'.op = "process_block" =>
        LET xs == last'.a
            after[n \in 0..Len(xs)] ==
                IF n = 0 THEN Fb ELSE FbProcess(after[n - 1], xs[n])
        IN  /\ Fb' = after[Len(xs)]
            /\ \A k \in 0..Len(xs) :
                Fb' = FbProcessBlock(FbProcessBlock(Fb, SubSeq(xs, 1, k)),
                                     SubSeq(xs, k + 1, Len(xs)))
            /\ (xs = << >> => Fb' = Fb)]_vars

\* process_block ran on a block of different samples, on a filterbank that
\* had processed before.
BlockOfDifferentSamples ==
    /\ last.op = "process_block"
    /\ Len(last.a) >= 2
    /\ last.a[1] # last.a[2]
    /\ \E i \in DOMAIN last.pre_env : last.pre_env[i] > 0

\* C13: one process(x) of a filter runs stages 0..3 of y_k = in_k + p * y_k
\* with the pole p = r * (cos w + j sin w): stage 0 is fed (x * gain, 0),
\* stage k >= 1 the new state of stage k - 1 for this sample; each stage
\* multiplies the pole by its own state of the previous sample and stores
\* its output as its state; the value returned (the band's magnitude) is the
\* magnitude of stage 3's new state.  The coefficients do not change.
CascadeFeedsNewState ==
    [][last'.op = "process" =>
        \A i \in 1..Len(filters) :
            LET f == filters[i]
                g == filters'[i]
                x == last'.a
                in_real(k) == IF k = 1 THEN FMul[x, f.gain] ELSE g.state_real[k - 1]
                in_imag(k) == IF k = 1 THEN 0 ELSE g.state_imag[k - 1]
            IN  /\ \A k \in 1..4 :
                    /\ g.state_real[k] =
                        in_real(k) + FMul[f.r, FMul[f.cos_omega, f.state_real[k]]
                                               - FMul[f.sin_omega, f.state_imag[k]]]
                    /\ g.state_imag[k] =
                        in_imag(k) + FMul[f.r, FMul[f.sin_omega, f.state_real[k]]
                                               + FMul[f.cos_omega, f.state_imag[k]]]
                /\ magnitudes'[i] =
                        FSqrt[FMul[g.state_real[4], g.state_real[4]]
                              + FMul[g.state_imag[4], g.state_imag[4]]]
                /\ <<g.r, g.cos_omega, g.sin_omega, g.gain, g.center_hz, g.sample_rate>>
                        = <<f.r, f.cos_omega, f.sin_omega, f.gain, f.center_hz, f.sample_rate>>]_vars

\* process ran on a filter whose stages held states, and left stages that
\* differ from one another, with an imaginary part in the last.
CascadeRanOnState ==
    /\ last.op = "process"
    /\ \E i \in DOMAIN last.pre_env : last.pre_env[i] > 0
    /\ Len(filters) >= 1
    /\ filters[1].state_real[1] # filters[1].state_real[2]
    /\ filters[1].state_imag[4] # 0

\* C14: in every state reached by construction and configure, process,
\* process_block and reset calls, the bands, the filters, the magnitude
\* buffer and the envelope buffer each hold config.num_bands entries (what
\* num_bands() reports), indexed alike, and filter i has the center frequency
\* of band i.
LengthsAgree ==
    /\ DOMAIN bands = 1..config.num_bands
    /\ DOMAIN filters = 1..config.num_bands
    /\ DOMAIN magnitudes = 1..config.num_bands
    /\ DOMAIN smoothed_magnitudes = 1..config.num_bands
    /\ \A i \in 1..config.num_bands : filters[i].center_hz = bands[i].center_hz

\* A filterbank that had processed was reconfigured to another number of
\* bands.
ResizedAfterProcessing ==
    /\ last.op = "configure"
    /\ Len(last.pre_env) # config.num_bands
    /\ \E i \in DOMAIN last.pre_env : last.pre_env[i] > 0

\* C15: configure(c), whatever the configuration and the samples processed
\* before, leaves the state with_config(c) gives a new instance: the bands
\* and coefficients of c, every accumulator zero, both buffers zero and
\* c.num_bands long, the smoothing coefficient of c.
ReconfigureEqualsFresh ==
    last.op = "configure" =>
        /\ config = last.a
        /\ Fb = WithConfig(last.a)
        /\ magnitudes = [k \in 1..last.a.num_bands |-> 0]
        /\ smoothed_magnitudes = [k \in 1..last.a.num_bands |-> 0]
        /\ \A i \in DOMAIN filters :
                /\ filters[i].state_real = <<0, 0, 0, 0>>
                /\ filters[i].state_imag = <<0, 0, 0, 0>>

\* configure ran on a filterbank whose envelope held a value in a band the
\* new configuration has too.
ReconfiguredLiveBand ==
    /\ last.op = "configure"
    /\ \E i \in DOMAIN last.pre_env \cap DOMAIN smoothed_magnitudes :
            last.pre_env[i] > 0

\* C16: a filterbank just constructed or reset is silent (every accumulator,
\* magnitude and envelope entry is 0); processing samples equal to 0, one by
\* one or as a block, keeps a silent filterbank silent; and on a silent
\* filterbank the dB accessor returns exactly min_db for every band.
SilenceIsFixedPoint ==
    [][LET Silent(fs, mags, env) ==
                /\ \A i \in DOMAIN fs :
                        fs[i].state_real = <<0, 0, 0, 0>> /\ fs[i].state_imag = <<0, 0, 0, 0>>
                /\ \A i \in DOMAIN mags : mags[i] = 0
                /\ \A i \in DOMAIN env : env[i] = 0
           Zero(op, a) ==
                \/ op = "process" /\ a = 0
                \/ op = "process_block" /\ \A k \in DOMAIN a : a[k] = 0
       IN  /\ last.op = "new" => Silent(filters, magnitudes, smoothed_magnitudes)
           /\ last'.op = "reset" => Silent(filters', magnitudes', smoothed_magnitudes')
           /\ (Silent(filters, magnitudes, smoothed_magnitudes)
                    /\ last'.op \in {"process", "process_block"}
                    /\ Zero(last'.op, last'.a)) =>
                Silent(filters', magnitudes', smoothed_magnitudes')
           /\ (Silent(filters, magnitudes, smoothed_magnitudes)
                    /\ last'.op = "magnitudes_db") =>
                ret' = [i \in 1..config.num_bands |-> last'.a]]_vars

\* A block of two silent samples was processed and left the filterbank silent.
SilentBlockProcessed ==
    /\ last.op = "process_block"
    /\ Len(last.a) >= 2
    /\ \A k \in DOMAIN last.a : last.a[k] = 0
    /\ Len(magnitudes) >= 1
    /\ \A i \in DOMAIN magnitudes : magnitudes[i] = 0 /\ smoothed_magnitudes[i] = 0


\* C17, as stated: with a smoothing coefficient in [0, 1), every magnitude and
\* envelope entry is >= 0 in every reachable state, and after each process
\* call the new envelope entry lies between the envelope entry before the
\* call and the new magnitude, inclusive.
EnvelopeBetweenExactly ==
    [][(0 <= smooth_coeff /\ smooth_coeff < One) =>
        /\ \A i \in DOMAIN magnitudes' :
                magnitudes'[i] >= 0 /\ smoothed_magnitudes'[i] >= 0
        /\ last'.op = "process" =>
            \A i \in DOMAIN smoothed_magnitudes' :
                LET lo == IF smoothed_magnitudes[i] < magnitudes'[i]
                            THEN smoothed_magnitudes[i] ELSE magnitudes'[i]
                    hi == IF smoothed_magnitudes[i] < magnitudes'[i]
                            THEN magnitudes'[i] ELSE smoothed_magnitudes[i]
                IN  lo <= smoothed_magnitudes'[i] /\ smoothed_magnitudes'[i] <= hi]_vars

\* C17, amended: the entries are >= 0, and after each process call the new
\* envelope entry leaves the interval between the envelope entry before the
\* call and the new magnitude by no more than the rounding of the smoothing
\* line, two spacings of the representable values at the larger of the two.
EnvelopeBetweenUpToRounding ==
    [][(0 <= smooth_coeff /\ smooth_coeff < One) =>
        /\ \A i \in DOMAIN magnitudes' :
                magnitudes'[i] >= 0 /\ smoothed_magnitudes'[i] >= 0
        /\ last'.op = "process" =>
            \A i \in DOMAIN smoothed_magnitudes' :
                LET lo == IF smoothed_magnitudes[i] < magnitudes'[i]
                            THEN smoothed_magnitudes[i] ELSE magnitudes'[i]
                    hi == IF smoothed_magnitudes[i] < magnitudes'[i]
                            THEN magnitudes'[i] ELSE smoothed_magnitudes[i]
                IN  /\ lo - 2 * Ulp[hi] <= smoothed_magnitudes'[i]
                    /\ smoothed_magnitudes'[i] <= hi + 2 * Ulp[hi]]_vars

\* A process call on a negative sample has blended a nonzero envelope with a
\* nonzero magnitude under a smoothing coefficient inside (0, 1).
SmoothedNegativeSample ==
    /\ last.op = "process"
    /\ last.a < 0
    /\ 0 < smooth_coeff /\ smooth_coeff < One
    /\ \E i \in DOMAIN smoothed_magnitudes :
        /\ i \in DOMAIN last.pre_env
        /\ last.pre_env[i] > 0
        /\ magnitudes[i] > 0
        /\ smoothed_magnitudes[i] > 0
====
